---- MODULE Spec2Model ----
(***************************************************************************)
(* use-trpc: the query/mutation execution scheduler and the subscription   *)
(* lifecycle of src/src/useTRPC.ts (the useTRPC composable, lines 453-874) *)
(* on top of the Vue scheduler (watch / nextTick) and the tRPC client.     *)
(*                                                                         *)
(* The Vue scheduler is modelled as a FIFO microtask queue `mq`: a watcher *)
(* whose source changed queues a job and one "flush" microtask; nextTick   *)
(* chains its callback on the pending flush promise when there is one and  *)
(* on an already resolved promise otherwise.  The transport (tRPC client)  *)
(* is an external collaborator: it settles calls and delivers subscription *)
(* callbacks at any time.                                                  *)
(***************************************************************************)
EXTENDS Integers, Sequences, FiniteSets, TLC

\* ---------------------------------------------------------------- bounds
\* user triggers (execute(), argument / header changes) stop once this many
\* executions have been started
MaxExecs == 2
\* manual execute() calls stop once a scheduling tick has seen this many triggers
MaxTriggers == 2
\* operations of the caller (pause and unpause apart) and connectivity changes
\* on a subscription binding
MaxSOps == 3
\* executions started on the bindings of a facade
MaxStarts == 5

\* ------------------------------------------------------------- constants
\* The id counter is a JavaScript number that runs up to 2^53 - 1, more than
\* an integer of the model checker holds: a number is written with two digits
\* in base 2^27, [hi, lo] standing for hi * 2^27 + lo.
Limb == 134217728
Num(h, l) == [hi |-> h, lo |-> l]
Zero == Num(0, 0)
One == Num(0, 1)
\* i + 1 and i - 1
Succ(i) == IF i.lo = Limb - 1 THEN Num(i.hi + 1, 0) ELSE Num(i.hi, i.lo + 1)
Pred(i) == IF i.lo = 0 THEN Num(i.hi - 1, Limb - 1) ELSE Num(i.hi, i.lo - 1)
\* i >= j
AtLeast(i, j) == i.hi > j.hi \/ (i.hi = j.hi /\ i.lo >= j.lo)

\* Number.MAX_SAFE_INTEGER = 2^53 - 1 = 9007199254740991
\*   = (2^26 - 1) * 2^27 + (2^27 - 1)
MAX_SAFE_INTEGER == Num(67108863, 134217727)

UNDEF == "undefined"
\* the object a headers source yields
Headers == "headers"
ArgVals == {"Steve", "Bob"}

\* the remote procedure of the tests: `Hello, ${input.name}!`
Result(v) == "Hello, " \o v \o "!"

RemoteError == "TRPCClientError"
ArgsError == "ArgsError"

VARIABLES
  cfg,              \* arguments of useQuery / useMutation (fixed at construction)
  args,             \* current value of the argument source
  data,             \* _data
  error,            \* _error
  executing,        \* _executing
  paused,           \* paused
  abortController,  \* abortController.value: 0 = undefined, n = controller of activation n
  aborted,          \* controllers whose signal is aborted
  disposed,         \* the owning scope has been disposed
  id,               \* the id counter of the registry
  activeExecutions, \* the Map, as the sequence of its entries in insertion order
  acts,             \* the running activations of the async function execute
  nStarted,         \* number of activations of execute that passed the in-flight check
  mq,               \* microtask queue
  deferred,         \* nextTick callbacks chained on the pending flush promise
  jobs,             \* queued watcher jobs, in the order they were queued
  argsOld,          \* the value the argument watcher saw last
  headersOld,       \* the value the headers watcher saw last
  argsTracked,      \* the effect of the argument watcher depends on its source
  headersTracked,   \* the effect of the headers watcher depends on its source
  isExecutingRef,   \* the computed ref isExecuting
  executionsRef,    \* the computed ref executions
  tick,             \* triggers and remote calls of the current scheduling tick
                    \* (of the last one while the microtask queue is empty)
  nAdd,             \* addExecution calls so far
  nDel,             \* removeExecution calls that deleted a record
  nDelMiss,         \* removeExecution calls that found no record
  rejected,         \* some promise returned by execute() rejected
  atDispose,        \* activations that were running when the scope was disposed
  immediatePromise, \* result.immediatePromise: "undefined", "pending" or "resolved"
  dataWritten       \* _data has been assigned a remote result or cleared

\* what the caller sees and sets
uvars == <<args, data, error, paused>>
\* cancellation
cvars == <<abortController, aborted, disposed, atDispose>>
\* what execute() works on
evars == <<executing, id, activeExecutions, acts, nStarted, mq, deferred, tick, nAdd>>
\* bookkeeping of removals and of rejected promises
hvars == <<nDel, nDelMiss, rejected>>

\* the initial-load promise and the history of _data
ivars == <<immediatePromise, dataWritten>>

\* the watchers
wvars == <<jobs, argsOld, headersOld, argsTracked, headersTracked>>

\* the computed refs of the registry
rvars == <<isExecutingRef, executionsRef>>

pvars == <<cfg, uvars, cvars, evars, wvars, hvars, ivars, rvars>>

VARIABLES
  scfg,             \* arguments of useSubscription (fixed at construction)
  sArgs,            \* current value of the argument source
  sData,            \* _data
  sError,           \* _error
  state,            \* _state
  subscribed,       \* _subscribed
  handle,           \* _unsubscribe: 0 = undefined, k = the closure over the
                    \* unsubscribe function of transport subscription k
  sPaused,          \* paused
  callbacks,        \* onData, onError, onComplete, onStarted, onStopped are still set
  sDisposed,        \* the owning scope has been disposed
  connected,        \* isWebsocketConnected
  connOld,          \* the value the connected watcher saw last
  hasEverConnected, \* hasEverConnected
  subs,             \* the transport subscriptions opened by resolver.subscribe, in order
  smq,              \* microtask queue
  sdeferred,        \* resubscribe() continuations chained on the pending flush promise
  sjobs,            \* queued watcher jobs, in the order they were queued
  sOps,             \* operations of the caller (pause and unpause apart) and
                    \* connectivity changes so far
  seen,             \* the values the callback of the connected watcher was called with
  nConnSubscribe,   \* subscribe() calls made by the connected watcher
  released          \* the caller's last call of subscribe(), unsubscribe() and
                    \* resubscribe() was unsubscribe()

\* what subscribe() and unsubscribe() work on
kvars == <<state, subscribed, handle, subs>>
\* what the caller sees and sets
suvars == <<sArgs, sData, sError, sPaused>>
\* connectivity and disposal
snvars == <<callbacks, sDisposed, connected, connOld, hasEverConnected>>
\* scheduler
sqvars == <<smq, sdeferred, sjobs>>

\* what the connected watcher saw and did
shvars == <<seen, nConnSubscribe, released>>

svars == <<scfg, kvars, suvars, snvars, sqvars, sOps, shvars>>

VARIABLES
  held,             \* per binding of the facade: the id its running execution got
                    \* from addExecution, 0 while it is not executing
  startOrder        \* the executing bindings, in the order their executions started

\* the bindings of one facade, seen from its registry
fvars == <<held, startOrder>>

VARIABLES
  config,           \* the config passed to useTRPC and the inputs of the bindings
  built             \* what the construction produced

\* construction
bvars == <<config, built>>

vars == <<pvars, svars, fvars, bvars>>

\* ------------------------------------------------- reactivity classifier
Tri == {"undefined", "true", "false"}

\* procedureConfig.reactive: undefined, a boolean, or { headers?, args? }
ReactiveOpts ==
  {[kind |-> "undefined", value |-> "undefined", headers |-> "undefined", args |-> "undefined"]}
  \cup {[kind |-> "boolean", value |-> b, headers |-> "undefined", args |-> "undefined"] :
          b \in {"true", "false"}}
  \cup {[kind |-> "object", value |-> "undefined", headers |-> h, args |-> a] :
          h \in Tri, a \in Tri}

\* kinds of value an argument / header source can be
SourceKinds == {"none", "plain", "reactive", "fn", "asyncFn"}

isReactive(k) == k = "reactive"
Truthy(k) == k /= "none"

areArgsFn(k) == k \in {"fn", "asyncFn"}
areArgsAsyncFn(k) == areArgsFn(k) /\ k = "asyncFn"
isArgReactivityTrue(r) ==
  (r.kind = "boolean" /\ r.value = "true") \/ (r.kind = "object" /\ r.args = "true")
isArgReactivityFalse(r) ==
  (r.kind = "boolean" /\ r.value = "false") \/ (r.kind = "object" /\ r.args = "false")
\* an accessor counts as trackable by default
shouldTrackReactiveArgs_AccessorsToo(k, r) ==
  IF isArgReactivityTrue(r) THEN TRUE
  ELSE IF isArgReactivityFalse(r) THEN FALSE
  ELSE Truthy(k) /\ (isReactive(k) \/ areArgsFn(k))

shouldTrackReactiveArgs(k, r) ==
  IF isArgReactivityTrue(r) THEN TRUE
  ELSE IF isArgReactivityFalse(r) THEN FALSE
  ELSE Truthy(k) /\ isReactive(k)

areHeadersFn(k) == k \in {"fn", "asyncFn"}
areHeadersAsyncFn(k) == areHeadersFn(k) /\ k = "asyncFn"
isHeaderReactivityTrue(r) ==
  (r.kind = "boolean" /\ r.value = "true") \/ (r.kind = "object" /\ r.headers = "true")
isHeaderReactivityFalse(r) ==
  (r.kind = "boolean" /\ r.value = "false") \/ (r.kind = "object" /\ r.headers = "false")
shouldTrackHeaderReactivity(k, r) ==
  IF isHeaderReactivityTrue(r) THEN TRUE
  ELSE IF isHeaderReactivityFalse(r) THEN FALSE
  ELSE Truthy(k) /\ isReactive(k)

\* the two `if (...) watch(...)` conditions
HeadersWatched(c) ==
  Truthy(c.headers) /\ ~areHeadersAsyncFn(c.headers)
    /\ shouldTrackHeaderReactivity(c.headers, c.reactive)
ArgsWatched(c) ==
  Truthy(c.args) /\ ~areArgsAsyncFn(c.args) /\ shouldTrackReactiveArgs(c.args, c.reactive)

\* a Vue watcher only ever fires for a reactive object or a getter; a getter
\* that calls an async accessor tracks what the accessor reads before its first
\* await and returns a new Promise at every evaluation
SourceFires(k) == k \in {"reactive", "fn", "asyncFn"}

\* ------------------------------------------------------------- registry
\* lines 535-536: if (id >= Number.MAX_SAFE_INTEGER) id = 0; id++
addExecutionId(i) == IF AtLeast(i, MAX_SAFE_INTEGER) THEN One ELSE Succ(i)

HasKey(reg, k) == \E j \in 1..Len(reg) : reg[j].id = k

\* Map.prototype.set: an existing key keeps its position
MapSet(reg, k, m) ==
  IF HasKey(reg, k)
    THEN [j \in 1..Len(reg) |-> IF reg[j].id = k THEN [id |-> k, msg |-> m] ELSE reg[j]]
    ELSE Append(reg, [id |-> k, msg |-> m])

addExecution(reg, k, m) == MapSet(reg, k, m)

removeExecution(reg, k) == SelectSeq(reg, LAMBDA r : r.id /= k)

\* a computed ref: "live" while its effect tracks the registry; once the scope
\* that owns it has been stopped it is "dirty" until it is read, and then
\* "cached" with the value of that read for good
Computed(st, v) == [st |-> st, v |-> v]

\* .value of a computed ref whose getter would return cur
Value(c, cur) == IF c.st = "cached" THEN c.v ELSE cur

\* line 529: computed(() => !!activeExecutions.value.size)
isExecutingNow(reg) == Len(reg) /= 0
\* line 531: computed(() => [...activeExecutions.value.values()])
executionsNow(reg) == [j \in 1..Len(reg) |-> reg[j].msg]

isExecuting == Value(isExecutingRef, isExecutingNow(activeExecutions))
executions == Value(executionsRef, executionsNow(activeExecutions))

\* the effect of a computed ref is stopped with its scope: wasRead says that
\* the ref has been read since the registry last changed, so that it holds
\* the value cur
Stopped(c, wasRead, cur) ==
  IF c.st /= "live" THEN c
  ELSE IF wasRead THEN Computed("cached", cur) ELSE Computed("dirty", c.v)

\* a read of .value: a stopped computed ref that is dirty evaluates its getter
\* once more and is never marked dirty again
ReadOf(c, cur) == IF c.st = "dirty" THEN Computed("cached", cur) ELSE c

\* ------------------------------------------------------------ scheduler
FlushTask == [kind |-> "flush", n |-> 0]
ExecTask(n) == [kind |-> "exec", n |-> n]
\* the continuation of a caller awaiting an execute() that returned at once
RetTask == [kind |-> "ret", n |-> 0]
\* the continuation of the executor of immediatePromise after `await execute()`
ImmTask == [kind |-> "imm", n |-> 0]

\* currentFlushPromise is set: a flush is queued
FlushPending(q) == \E j \in 1..Len(q) : q[j].kind = "flush"

queueFlush(q) == IF FlushPending(q) THEN q ELSE Append(q, FlushTask)

ExecTasks(ns) == [j \in 1..Len(ns) |-> ExecTask(ns[j])]

Queued(q, j) == \E i \in 1..Len(q) : q[i] = j

\* queueJob: a job that is already in the queue is not queued again
queueJob(q, j) == IF Queued(q, j) THEN q ELSE Append(q, j)

\* the job of a watcher evaluates its source again and calls back when
\* hasChanged(newValue, oldValue): a reactive object is watched deeply and
\* always calls back, an accessor returns a fresh object ({ name }) or undefined
hasChanged(k, new, old) == k = "reactive" \/ ~(new = UNDEF /\ old = UNDEF)



\* ---------------------------------------------- useQuery / useMutation
ReactiveUnset ==
  [kind |-> "undefined", value |-> "undefined", headers |-> "undefined", args |-> "undefined"]
ReactiveTrue ==
  [kind |-> "boolean", value |-> "true", headers |-> "undefined", args |-> "undefined"]

\* dev: the development build of Vue is loaded, which throws an error of a
\* watcher again after reporting it; the production build only logs it
Config(a, h, r, i) ==
  [args |-> a, headers |-> h, reactive |-> r, immediate |-> i,
   initialData |-> "Hello", msg |-> "load", hasScope |-> TRUE, dev |-> TRUE,
   facadeInScope |-> FALSE]

Production(c) == [c EXCEPT !.dev = FALSE]

\* useTRPC() was called in the scope of the binding, as in the setup of one
\* component: the scope owns the computed refs of the registry too
FacadeInScope(c) == [c EXCEPT !.facadeInScope = TRUE]

\* the call sites the model is checked for: reactive arguments and headers,
\* a watched accessor (under both builds of Vue), an asynchronous accessor,
\* plain arguments with the facade made in the scope of the binding
Configs ==
  {Config("reactive", "reactive", ReactiveUnset, FALSE),
   Config("fn", "none", ReactiveTrue, TRUE),
   Production(Config("fn", "none", ReactiveTrue, TRUE)),
   Config("asyncFn", "none", ReactiveTrue, FALSE),
   FacadeInScope(Config("plain", "none", ReactiveUnset, TRUE))}

NoTick == [triggers |-> 0, calls |-> 0]

\* a scheduling tick ends when the microtask queue drains; the next trigger or
\* queued microtask starts a new one
TickOf(q, t) == IF q = <<>> THEN NoTick ELSE t

\* one activation of the async function execute, suspended at `pc`
Activation(n, k) ==
  [n |-> n, id |-> k, pc |-> "tick", argv |-> UNDEF, token |-> 0, out |-> "none",
   calls |-> 0, reads |-> 0, hops |-> 0]

\* the in-flight check dropped
AlreadyExecuting_Never(e) == FALSE

\* line 659: if (_executing.value) return
AlreadyExecuting(e) == e

\* the flag not raised before the await
ExecutingOnStart_Unset == FALSE

\* line 662: _executing.value = true
ExecutingOnStart == TRUE

\* lines 641-651: everything _execute does is inside try { } catch (e) { _error.value = e }
Caught(e) == TRUE

\* the part of the state execute() works on
Core ==
  [executing |-> executing, id |-> id, reg |-> activeExecutions, acts |-> acts,
   nStarted |-> nStarted, mq |-> mq, deferred |-> deferred,
   tick |-> TickOf(mq, tick), nAdd |-> nAdd]

\* execute() up to its `await nextTick(...)`; inFlush: called from a watcher callback
execute(s, msg, inFlush) ==
  LET t == [s EXCEPT !.tick.triggers = @ + 1] IN
  IF AlreadyExecuting(s.executing) THEN t
  ELSE
    LET k == addExecutionId(s.id)
        n == s.nStarted + 1
        chained == inFlush \/ FlushPending(s.mq)
    IN [t EXCEPT !.id = k,
                 !.reg = addExecution(s.reg, k, msg),
                 !.nAdd = @ + 1,
                 !.executing = ExecutingOnStart,
                 !.acts = @ \cup {Activation(n, k)},
                 !.nStarted = n,
                 !.deferred = IF chained THEN Append(@, n) ELSE @,
                 !.mq = IF chained THEN @ ELSE Append(@, ExecTask(n))]

SetCore(s) ==
  /\ executing' = s.executing
  /\ id' = s.id
  /\ activeExecutions' = s.reg
  /\ acts' = s.acts
  /\ nStarted' = s.nStarted
  /\ mq' = s.mq
  /\ deferred' = s.deferred
  /\ tick' = s.tick
  /\ nAdd' = s.nAdd

Core0 ==
  [executing |-> FALSE, id |-> Zero, reg |-> <<>>, acts |-> {}, nStarted |-> 0,
   mq |-> <<>>, deferred |-> <<>>, tick |-> NoTick, nAdd |-> 0]

\* a promise that is born resolved
NewImmediatePromise_Resolved == "resolved"

\* line 698: result.immediatePromise = new Promise(async (resolve) => { ... })
NewImmediatePromise == "pending"

\* the state after useQuery(procedure, args, cfg) returned
PInitFor(c) ==
  /\ cfg = c
  /\ args = "Steve"
  /\ data = cfg.initialData
  /\ error = UNDEF
  /\ paused = FALSE
  /\ abortController = 0
  /\ aborted = {}
  /\ disposed = FALSE
  /\ jobs = <<>>
  /\ argsOld = "Steve"
  /\ headersOld = Headers
  /\ argsTracked = (ArgsWatched(c) /\ SourceFires(c.args))
  /\ headersTracked = (HeadersWatched(c) /\ SourceFires(c.headers))
  /\ isExecutingRef = Computed("live", FALSE)
  /\ executionsRef = Computed("live", <<>>)
  /\ nDel = 0
  /\ nDelMiss = 0
  /\ rejected = FALSE
  /\ atDispose = {}
  /\ immediatePromise = IF cfg.immediate THEN NewImmediatePromise ELSE UNDEF
  /\ dataWritten = FALSE
  /\ LET s == IF cfg.immediate THEN execute(Core0, cfg.msg, FALSE) ELSE Core0
     IN /\ executing = s.executing
        /\ id = s.id
        /\ activeExecutions = s.reg
        /\ acts = s.acts
        /\ nStarted = s.nStarted
        /\ mq = s.mq
        /\ deferred = s.deferred
        /\ tick = s.tick
        /\ nAdd = s.nAdd

HeadIs(t) == mq /= <<>> /\ Head(mq) = t

\* ---- operations of the caller
UserMayTrigger == nStarted < MaxExecs

\* a manual execute()
Execute ==
  /\ UNCHANGED <<svars, fvars, bvars, rvars>>
  /\ UserMayTrigger
  /\ Core.tick.triggers < MaxTriggers
  /\ LET s == execute(Core, cfg.msg, FALSE)
     IN SetCore(IF AlreadyExecuting(executing)
                  THEN [s EXCEPT !.mq = Append(@, RetTask)] ELSE s)
  /\ UNCHANGED <<cfg, ivars, uvars, cvars, wvars, hvars>>

\* the caller's `await execute()` resumes for a call that returned at line 659
ExecuteReturned ==
  /\ UNCHANGED <<svars, fvars, bvars, rvars>>
  /\ HeadIs(RetTask)
  /\ mq' = Tail(mq)
  /\ tick' = TickOf(mq, tick)
  /\ UNCHANGED <<cfg, ivars, uvars, cvars, executing, id, activeExecutions,
                 acts, nStarted, deferred, nAdd, wvars, hvars>>

ArgDomain(c) == IF areArgsFn(c.args) THEN ArgVals \cup {UNDEF} ELSE ArgVals

\* the caller changes the argument source
ChangeArgs(v) ==
  /\ UNCHANGED <<svars, fvars, bvars, rvars>>
  /\ UserMayTrigger
  /\ v \in ArgDomain(cfg)
  /\ v /= args
  /\ args' = v
  /\ IF ArgsWatched(cfg) /\ SourceFires(cfg.args) /\ argsTracked /\ ~disposed
       THEN /\ jobs' = queueJob(jobs, "args")
            /\ mq' = queueFlush(mq)
            /\ tick' = TickOf(mq, tick)
       ELSE UNCHANGED <<jobs, mq, tick>>
  /\ UNCHANGED <<argsOld, headersOld, argsTracked, headersTracked>>
  /\ UNCHANGED <<cfg, ivars, data, error, paused, cvars, executing, id, activeExecutions,
                 acts, nStarted, deferred, nAdd, hvars>>

\* the caller changes the headers passed to useTRPC
ChangeHeaders ==
  /\ UNCHANGED <<svars, fvars, bvars, rvars>>
  /\ UserMayTrigger
  /\ HeadersWatched(cfg) /\ SourceFires(cfg.headers) /\ headersTracked /\ ~disposed
  /\ ~Queued(jobs, "headers")
  /\ jobs' = queueJob(jobs, "headers")
  /\ UNCHANGED <<argsOld, headersOld, argsTracked, headersTracked>>
  /\ mq' = queueFlush(mq)
  /\ tick' = TickOf(mq, tick)
  /\ UNCHANGED <<cfg, ivars, uvars, cvars, executing, id, activeExecutions,
                 acts, nStarted, deferred, nAdd, hvars>>

\* pausing gives up the execution in flight
pause_ReleasesExecuting(p, e) == [paused |-> TRUE, executing |-> FALSE]

\* line 629: const pause = () => (paused.value = true); _executing is not touched
pause(p, e) == [paused |-> TRUE, executing |-> e]

Pause ==
  /\ UNCHANGED <<svars, fvars, bvars, rvars>>
  /\ ~paused
  /\ paused' = pause(paused, executing).paused
  /\ executing' = pause(paused, executing).executing
  /\ UNCHANGED <<id, activeExecutions, acts, nStarted, mq, deferred, tick, nAdd>>
  /\ UNCHANGED <<cfg, ivars, args, data, error, cvars, wvars, hvars>>

Unpause ==
  /\ UNCHANGED <<svars, fvars, bvars, rvars>>
  /\ paused
  /\ paused' = FALSE
  /\ UNCHANGED <<cfg, ivars, args, data, error, cvars, evars, wvars, hvars>>

\* reset forgets the initial data
ResetValue_Undefined(c) == UNDEF

\* line 685: reset: () => (_data.value = initialData)
ResetValue(c) == c.initialData

\* result.reset
Reset ==
  /\ UNCHANGED <<svars, fvars, bvars, rvars>>
  /\ data /= ResetValue(cfg)
  /\ data' = ResetValue(cfg)
  /\ UNCHANGED <<cfg, ivars, args, error, paused, cvars, evars, wvars, hvars>>

\* result.clear
Clear ==
  /\ UNCHANGED <<svars, fvars, bvars, rvars>>
  /\ data /= UNDEF
  /\ data' = UNDEF
  /\ dataWritten' = TRUE
  /\ UNCHANGED <<cfg, immediatePromise, args, error, paused, cvars, evars, wvars, hvars>>

\* abortController.value?.abort()
abort(ab, c) == IF c = 0 THEN ab ELSE ab \cup {c}

\* the caller aborts through the exposed abortController
Abort ==
  /\ UNCHANGED <<svars, fvars, bvars, rvars>>
  /\ abortController /= 0
  /\ abortController \notin aborted
  /\ aborted' = abort(aborted, abortController)
  /\ UNCHANGED <<cfg, ivars, uvars, abortController, disposed, atDispose, evars, wvars, hvars>>

\* the owning scope is disposed: the effects created in it are stopped (the
\* watchers, and the computed refs of the registry when useTRPC() was called
\* in it), then onScopeDispose(() => abortController.value?.abort()) runs
DisposeWith(seenIsExecuting, seenExecutions) ==
  /\ UNCHANGED <<svars, fvars, bvars>>
  /\ cfg.hasScope
  /\ ~disposed
  /\ disposed' = TRUE
  /\ aborted' = abort(aborted, abortController)
  /\ jobs' = <<>>
  /\ argsTracked' = FALSE
  /\ headersTracked' = FALSE
  /\ UNCHANGED <<argsOld, headersOld>>
  /\ IF cfg.facadeInScope
       THEN /\ isExecutingRef' = Stopped(isExecutingRef, seenIsExecuting,
                                         isExecutingNow(activeExecutions))
            /\ executionsRef' = Stopped(executionsRef, seenExecutions,
                                        executionsNow(activeExecutions))
       ELSE UNCHANGED rvars
  /\ atDispose' = {a.n : a \in acts}
  /\ UNCHANGED <<cfg, ivars, uvars, abortController, evars, hvars>>

Dispose ==
  \E seenIsExecuting, seenExecutions \in BOOLEAN :
    DisposeWith(seenIsExecuting, seenExecutions)

\* the caller reads isExecuting.value after the scope has been disposed
ReadIsExecuting ==
  /\ UNCHANGED <<svars, fvars, bvars>>
  /\ isExecutingRef.st = "dirty"
  /\ isExecutingRef' = ReadOf(isExecutingRef, isExecutingNow(activeExecutions))
  /\ UNCHANGED <<cfg, uvars, cvars, evars, wvars, hvars, ivars, executionsRef>>

\* the caller reads executions.value after the scope has been disposed
ReadExecutions ==
  /\ UNCHANGED <<svars, fvars, bvars>>
  /\ executionsRef.st = "dirty"
  /\ executionsRef' = ReadOf(executionsRef, executionsNow(activeExecutions))
  /\ UNCHANGED <<cfg, uvars, cvars, evars, wvars, hvars, ivars, isExecutingRef>>

\* ---- microtasks
\* the promise of nextTick(() => _execute()) is resolved with the promise of
\* _execute: once _execute has ended, one more microtask passes before the
\* continuation of execute() (line 664) is queued, and two when _execute ended
\* inside the nextTick callback itself
HopsAfterEnd(inCallback) == IF inCallback THEN 2 ELSE 1

\* the sources of the two watchers (lines 670 and 677) and what they saw last
SourceOf(j) == IF j = "headers" THEN cfg.headers ELSE cfg.args
OldValue(j) == IF j = "headers" THEN headersOld ELSE argsOld

\* what the accessors do when the jobs of a flush evaluate them again: the
\* accessor returns ("value"), throws after it has read the source the caller
\* changes ("throw"), or throws before it has read anything reactive
\* ("throwUnread"); it throws only for a queued job whose source is a
\* synchronous accessor
GetterOutcomes ==
  {g \in [{"headers", "args"} -> {"value", "throw", "throwUnread"}] :
     \A j \in {"headers", "args"} :
       g[j] /= "value" => (Queued(jobs, j) /\ SourceOf(j) = "fn")}

Throws(g, j) == g[j] \in {"throw", "throwUnread"}

\* the getter of the watcher, () => args() or () => headers(), throws: the
\* development build of Vue throws the error again out of the job
Rethrows(g, j) == Throws(g, j) /\ cfg.dev

\* the value the job gets from its source; the production build logs the error
\* of a throwing accessor and goes on with undefined
NewValue(g, j) ==
  IF Throws(g, j) THEN UNDEF ELSE IF j = "headers" THEN Headers ELSE args

\* the effect of the watcher collects its dependencies anew at every
\* evaluation of the getter: after one that threw before it read the source,
\* no later change of the source queues the job
Tracks(g, j) == g[j] /= "throwUnread"

\* the job calls the callback of its watcher when the source has a new value
CallsBack(g, j) == hasChanged(SourceOf(j), NewValue(g, j), OldValue(j))

\* the pause flag not looked at
RunJob_IgnoresPause(s, g, j) ==
  IF CallsBack(g, j) THEN execute(s, cfg.msg, TRUE) ELSE s

\* lines 670-672 and 677-679: () => { if (!paused.value) execute() }, called
\* by the job of the watcher when its source has changed
RunJob(s, g, j) ==
  IF CallsBack(g, j) /\ ~paused THEN execute(s, cfg.msg, TRUE) ELSE s

\* the queued jobs, in the order they were queued, up to the first one that
\* throws: r.core is the binding, r.ran the jobs whose getter was evaluated,
\* r.done those that ran to their end, r.failed says that the flush ended
\* with an exception
RECURSIVE RunJobs(_, _, _)
RunJobs(r, g, q) ==
  IF q = <<>> THEN r
  ELSE IF Rethrows(g, Head(q))
    THEN [r EXCEPT !.failed = TRUE, !.ran = @ \cup {Head(q)}]
  ELSE RunJobs([r EXCEPT !.core = RunJob(r.core, g, Head(q)),
                         !.ran = @ \cup {Head(q)},
                         !.done = @ \cup {Head(q)}], g, Tail(q))

\* line 663 without its callback: the promise of the flush that nextTick
\* chained the callback on is rejected, _execute is never called and
\* `await nextTick(...)` throws out of execute()
Rejected(as, ns) ==
  {IF \E i \in 1..Len(ns) : ns[i] = a.n
     THEN [a EXCEPT !.pc = "throw", !.hops = HopsAfterEnd(FALSE)] ELSE a : a \in as}

\* flushJobs: the jobs of the watchers; then the callbacks chained on the
\* flush promise are released, or refused when a job threw
FlushWith(g) ==
  /\ UNCHANGED <<svars, fvars, bvars, rvars>>
  /\ HeadIs(FlushTask)
  /\ LET s0 == [Core EXCEPT !.mq = Tail(mq)]
         r == RunJobs([core |-> s0, ran |-> {}, done |-> {}, failed |-> FALSE], g, jobs)
         s2 == r.core
     IN /\ SetCore([s2 EXCEPT !.mq = @ \o ExecTasks(s2.deferred),
                              !.deferred = <<>>,
                              !.acts = IF r.failed THEN Rejected(@, s2.deferred) ELSE @])
        /\ argsOld' = IF "args" \in r.done THEN NewValue(g, "args") ELSE argsOld
        /\ headersOld' = IF "headers" \in r.done THEN NewValue(g, "headers") ELSE headersOld
        /\ argsTracked' = IF "args" \in r.ran THEN Tracks(g, "args") ELSE argsTracked
        /\ headersTracked' =
             IF "headers" \in r.ran THEN Tracks(g, "headers") ELSE headersTracked
  /\ jobs' = <<>>
  /\ UNCHANGED <<cfg, ivars, uvars, cvars, hvars>>

Flush == \E g \in GetterOutcomes : FlushWith(g)

SetAct(a, b) == (acts \ {a}) \cup {b}

\* abortController.value = new AbortController(); fn[method](_args, { signal }):
\* the remote call of activation a, which has read its arguments and become r,
\* is issued (controllers nothing refers to any more are forgotten)
IssueCall(a, r, q) ==
  /\ abortController' = a.n
  /\ aborted' = aborted \cap {b.token : b \in acts \ {a}}
  /\ SetCore([Core EXCEPT !.mq = q,
                          !.acts = SetAct(a, [r EXCEPT !.pc = "call",
                                                       !.token = a.n, !.calls = @ + 1]),
                          !.tick.calls = @ + 1])

\* the arguments as they were when the binding was constructed
ReadArgs_AtConstruction(cur) == "Steve"

\* line 642: const _args = areArgsFn ? await args() : args, the source as it is
\* when _execute runs
ReadArgs(cur) == cur

\* a synchronous accessor throws inside `await args()`: the await is never
\* reached and the catch runs at once; the promise an async accessor returned
\* is awaited
ThrowsInline(c, o) == areArgsFn(c.args) /\ ~areArgsAsyncFn(c.args) /\ o = "throw"

\* `await args()`: the value of a synchronous accessor is there when it
\* returns and the continuation is queued at once; the promise of an
\* asynchronous accessor is settled when it returns (async () => ({ name }))
\* or settles later
SettledOnReturn(c) == IF areArgsAsyncFn(c.args) THEN BOOLEAN ELSE {TRUE}

\* the nextTick callback: _execute starts and reads its arguments
RunExecute(a, o) ==
  /\ UNCHANGED <<svars, fvars, bvars, rvars>>
  /\ a \in acts /\ a.pc = "tick"
  /\ HeadIs(ExecTask(a.n))
  /\ IF ThrowsInline(cfg, o)
       THEN \* line 650 in the same microtask; _execute has ended
            /\ error' = IF Caught(ArgsError) THEN ArgsError ELSE error
            /\ LET b == [a EXCEPT !.pc = IF Caught(ArgsError) THEN "finish" ELSE "throw",
                                  !.argv = UNDEF,
                                  !.reads = @ + 1,
                                  !.out = o,
                                  !.hops = HopsAfterEnd(TRUE)]
               IN SetCore([Core EXCEPT !.mq = Append(Tail(mq), ExecTask(a.n)),
                                       !.acts = SetAct(a, b)])
            /\ UNCHANGED <<abortController, aborted>>
       ELSE IF areArgsFn(cfg.args)
         THEN \* await args(): the accessor is invoked now
              /\ LET b == [a EXCEPT !.pc = "args",
                                    !.argv = IF o = "throw" THEN UNDEF ELSE ReadArgs(args),
                                    !.reads = @ + 1,
                                    !.out = o]
                 IN \E settled \in SettledOnReturn(cfg) :
                      SetCore([Core EXCEPT !.mq = IF settled
                                                    THEN Append(Tail(mq), ExecTask(a.n))
                                                    ELSE Tail(mq),
                                           !.acts = SetAct(a, b)])
              /\ UNCHANGED <<error, abortController, aborted>>
         ELSE /\ o = "value"
              /\ IssueCall(a, [a EXCEPT !.argv = ReadArgs(args), !.reads = @ + 1], Tail(mq))
              /\ UNCHANGED error
  /\ UNCHANGED <<cfg, ivars, args, data, paused, disposed, atDispose, wvars, hvars>>

\* the promise of an asynchronous accessor settles
ArgsResolve(a) ==
  /\ UNCHANGED <<svars, fvars, bvars, rvars>>
  /\ a \in acts /\ a.pc = "args"
  /\ areArgsAsyncFn(cfg.args)
  /\ \A j \in 1..Len(mq) : mq[j] /= ExecTask(a.n)
  /\ mq' = Append(mq, ExecTask(a.n))
  /\ tick' = TickOf(mq, tick)
  /\ UNCHANGED <<cfg, ivars, uvars, cvars, executing, id, activeExecutions,
                 acts, nStarted, deferred, nAdd, wvars, hvars>>

\* the call made with undefined arguments
SkipsCall_Never(c, v) == FALSE

\* line 644: if (areArgsFn && _args === undefined) return
SkipsCall(c, v) == areArgsFn(c.args) /\ v = UNDEF

\* _execute resumes after `await args()`
ArgsContinue(a) ==
  /\ UNCHANGED <<svars, fvars, bvars, rvars>>
  /\ a \in acts /\ a.pc = "args"
  /\ HeadIs(ExecTask(a.n))
  /\ IF a.out = "throw"
       THEN /\ error' = IF Caught(ArgsError) THEN ArgsError ELSE error
            /\ LET b == [a EXCEPT !.pc = IF Caught(ArgsError) THEN "finish" ELSE "throw",
                                  !.hops = HopsAfterEnd(FALSE)]
               IN SetCore([Core EXCEPT !.mq = Append(Tail(mq), ExecTask(a.n)),
                                       !.acts = SetAct(a, b)])
            /\ UNCHANGED <<abortController, aborted>>
       ELSE IF SkipsCall(cfg, a.argv)
         THEN \* return: _execute ends without a call
              /\ SetCore([Core EXCEPT !.mq = Append(Tail(mq), ExecTask(a.n)),
                                      !.acts = SetAct(a, [a EXCEPT !.pc = "finish",
                                                                   !.hops = HopsAfterEnd(FALSE)])])
              /\ UNCHANGED <<error, abortController, aborted>>
         ELSE /\ IssueCall(a, a, Tail(mq))
              /\ UNCHANGED error
  /\ UNCHANGED <<cfg, ivars, args, data, paused, disposed, atDispose, wvars, hvars>>

\* the transport settles the remote call of activation a (whether or not its
\* signal has been aborted meanwhile)
Transport(a, o) ==
  /\ UNCHANGED <<svars, fvars, bvars, rvars>>
  /\ a \in acts /\ a.pc = "call"
  /\ o \in {"ok", "err"}
  /\ acts' = SetAct(a, [a EXCEPT !.pc = "settled", !.out = o])
  /\ mq' = Append(mq, ExecTask(a.n))
  /\ tick' = TickOf(mq, tick)
  /\ UNCHANGED <<cfg, ivars, uvars, cvars, executing, id, activeExecutions,
                 nStarted, deferred, nAdd, wvars, hvars>>

\* a failed call writes undefined
DataAfter_FailureClears(a, d) == IF a.out = "ok" THEN Result(a.argv) ELSE UNDEF

\* line 647: the assignment to _data.value happens only when the await returns
DataAfter(a, d) == IF a.out = "ok" THEN Result(a.argv) ELSE d

\* a successful call clears the error
ErrorAfter_SuccessClears(a, e) ==
  IF a.out /= "ok" /\ Caught(RemoteError) THEN RemoteError ELSE UNDEF

\* line 650: _error.value = e, in the catch only
ErrorAfter(a, e) == IF a.out /= "ok" /\ Caught(RemoteError) THEN RemoteError ELSE e

\* _execute resumes after `await fn[method](...)`: _data.value = ... or the catch
Settle(a) ==
  /\ UNCHANGED <<svars, fvars, bvars, rvars>>
  /\ a \in acts /\ a.pc = "settled"
  /\ HeadIs(ExecTask(a.n))
  /\ data' = DataAfter(a, data)
  /\ dataWritten' = (dataWritten \/ a.out = "ok")
  /\ error' = ErrorAfter(a, error)
  /\ LET b == [a EXCEPT !.pc = IF a.out = "ok" \/ Caught(RemoteError)
                                 THEN "finish" ELSE "throw",
                        !.hops = HopsAfterEnd(FALSE)]
     IN SetCore([Core EXCEPT !.mq = Append(Tail(mq), ExecTask(a.n)),
                             !.acts = SetAct(a, b)])
  /\ UNCHANGED <<cfg, immediatePromise, args, paused, cvars, wvars, hvars>>

\* lines 697-699: the execute() call of the construction is the one the executor
\* of immediatePromise awaits
AwaitedByImmediate(a) == cfg.immediate /\ a.n = 1

\* _execute has ended: a microtask in which the promise of nextTick follows
\* the promise of _execute
Follow(a) ==
  /\ UNCHANGED <<svars, fvars, bvars, rvars>>
  /\ a \in acts /\ a.pc \in {"finish", "throw"}
  /\ a.hops > 0
  /\ HeadIs(ExecTask(a.n))
  /\ SetCore([Core EXCEPT !.mq = Append(Tail(mq), ExecTask(a.n)),
                          !.acts = SetAct(a, [a EXCEPT !.hops = @ - 1])])
  /\ UNCHANGED <<cfg, ivars, uvars, cvars, wvars, hvars>>

\* execute() resumes after `await nextTick(...)`: lines 664-665, or, had _execute
\* rejected, the rejection of the promise execute() returned
Finish(a) ==
  /\ UNCHANGED <<svars, fvars, bvars, rvars>>
  /\ a \in acts /\ a.pc \in {"finish", "throw"}
  /\ a.hops = 0
  /\ HeadIs(ExecTask(a.n))
  /\ IF a.pc = "finish"
       THEN /\ SetCore([Core EXCEPT !.mq = IF AwaitedByImmediate(a)
                                            THEN Append(Tail(mq), ImmTask) ELSE Tail(mq),
                                    !.acts = acts \ {a},
                                    !.executing = FALSE,
                                    !.reg = removeExecution(activeExecutions, a.id)])
            /\ nDel' = IF HasKey(activeExecutions, a.id) THEN nDel + 1 ELSE nDel
            /\ nDelMiss' = IF HasKey(activeExecutions, a.id) THEN nDelMiss ELSE nDelMiss + 1
            /\ UNCHANGED rejected
       ELSE /\ SetCore([Core EXCEPT !.mq = Tail(mq), !.acts = acts \ {a}])
            /\ rejected' = TRUE
            /\ UNCHANGED <<nDel, nDelMiss>>
  /\ UNCHANGED <<cfg, ivars, uvars, cvars, wvars>>

\* line 700: resolve(true)
ResolveImmediate ==
  /\ UNCHANGED <<svars, fvars, bvars, rvars>>
  /\ HeadIs(ImmTask)
  /\ immediatePromise' = "resolved"
  /\ mq' = Tail(mq)
  /\ tick' = TickOf(mq, tick)
  /\ UNCHANGED <<cfg, dataWritten, uvars, cvars, executing, id, activeExecutions,
                 acts, nStarted, deferred, nAdd, wvars, hvars>>

PInit == \E c \in Configs : PInitFor(c)

PNext ==
  \/ Execute
  \/ ExecuteReturned
  \/ ResolveImmediate
  \/ \E v \in ArgVals \cup {UNDEF} : ChangeArgs(v)
  \/ ChangeHeaders
  \/ Pause
  \/ Unpause
  \/ Reset
  \/ Clear
  \/ Abort
  \/ Dispose
  \/ ReadIsExecuting
  \/ ReadExecutions
  \/ Flush
  \/ \E a \in acts : \E o \in {"value", "throw"} : RunExecute(a, o)
  \/ \E a \in acts : ArgsResolve(a)
  \/ \E a \in acts : ArgsContinue(a)
  \/ \E a \in acts : \E o \in {"ok", "err"} : Transport(a, o)
  \/ \E a \in acts : Settle(a)
  \/ \E a \in acts : Follow(a)
  \/ \E a \in acts : Finish(a)

\* ------------------------------------------------------- useSubscription
\* inline: the transport reports the end of a subscription to the observer from
\* inside its unsubscribe function (what the tRPC observable does); otherwise the
\* terminal callback arrives later
SConfig(a, r, i, t) == [args |-> a, reactive |-> r, immediate |-> i, inline |-> t]

\* the call sites the model is checked for
SConfigs ==
  {SConfig("reactive", "undefined", "undefined", TRUE),
   SConfig("reactive", "undefined", "undefined", FALSE),
   SConfig("reactive", "undefined", "false", TRUE),
   SConfig("asyncFn", "true", "undefined", TRUE)}

\* if (immediate === undefined) immediate = true
Immediate(c) == IF c.immediate = "undefined" THEN TRUE ELSE c.immediate = "true"

hasArgsFn(k) == k \in {"fn", "asyncFn"}

trackReactiveArgs(k, r) ==
  IF r = "true" THEN TRUE
  ELSE IF r = "false" THEN FALSE
  ELSE Truthy(k) /\ isReactive(k)

\* if (args && trackReactiveArgs) watch(...)
SArgsWatched(c) == Truthy(c.args) /\ trackReactiveArgs(c.args, c.reactive)

\* the Promise an async accessor returns for the value v
Promise(v) == "promise(" \o v \o ")"
IsPromise(x) == x \in {Promise(v) : v \in ArgVals}

\* line 789: const _args = hasArgsFn ? args() : args, not awaited: an async
\* accessor hands its Promise to the transport
_args(k, v) == IF k = "asyncFn" THEN Promise(v) ELSE v

\* the topic of the tests validates its input with z.object({ name: z.string() })
\* before its resolver runs: a Promise is sent as {} and is refused
Accepts(v) == ~IsPromise(v)

\* the topic of the tests emits { latest, name } on every push
Emitted(v) == [latest |-> "hello", name |-> v]
\* no initialData
NoData == [latest |-> UNDEF, name |-> UNDEF]

\* a transport subscription: the arguments it was opened with, where the
\* transport is with it, how often its unsubscribe function was invoked
NewSub(v) == [args |-> v, phase |-> "open", unsub |-> 0]

\* the transport's unsubscribe function of subscription k
TransportUnsubscribe(ss, k, sync) ==
  [ss EXCEPT ![k] = [@ EXCEPT !.unsub = @ + 1,
                              !.phase = IF @ \in {"open", "started"}
                                          THEN (IF sync THEN "done" ELSE "closing")
                                          ELSE @]]

\* the observer's onComplete ran inside the transport's unsubscribe
CompletesInline(ss, k, sync) == sync /\ ss[k].phase \in {"open", "started"}

SCore == [state |-> state, subscribed |-> subscribed, handle |-> handle, subs |-> subs]

\* _subscribe without its early return
_subscribe_Unguarded(s, v) ==
  [core |-> [s EXCEPT !.subs = Append(@, NewSub(v)), !.subscribed = TRUE],
   ret |-> Len(s.subs) + 1]

\* lines 786-819: _subscribe; 0 stands for the undefined of the early return
\* and k for the returned closure over subscription k
_subscribe(s, v) ==
  IF s.subscribed THEN [core |-> s, ret |-> 0]
  ELSE [core |-> [s EXCEPT !.subs = Append(@, NewSub(v)), !.subscribed = TRUE],
        ret |-> Len(s.subs) + 1]

\* line 822: const subscribe = () => (_unsubscribe = _subscribe())
subscribe(s, v) ==
  LET r == _subscribe(s, v) IN [r.core EXCEPT !.handle = r.ret]

\* lines 815-818 and 823: const unsubscribe = () => _unsubscribe && _unsubscribe()
unsubscribe(s, sync) ==
  IF s.handle = 0 THEN s
  ELSE [s EXCEPT !.subs = TransportUnsubscribe(@, s.handle, sync),
                 !.state = IF CompletesInline(s.subs, s.handle, sync) THEN "completed" ELSE @,
                 !.subscribed = FALSE]

SetSCore(s) ==
  /\ state' = s.state
  /\ subscribed' = s.subscribed
  /\ handle' = s.handle
  /\ subs' = s.subs

SCore0 == [state |-> "created", subscribed |-> FALSE, handle |-> 0, subs |-> <<>>]

\* the state after useSubscription(topic, args, cfg) returned; the connected
\* watcher is immediate and has seen the initial false
SInitFor(c) ==
  /\ scfg = c
  /\ sArgs = "Steve"
  /\ sData = NoData
  /\ sError = UNDEF
  /\ sPaused = FALSE
  /\ callbacks = TRUE
  /\ sDisposed = FALSE
  /\ connected = FALSE
  /\ connOld = FALSE
  /\ hasEverConnected = FALSE
  /\ smq = <<>>
  /\ sdeferred = 0
  /\ sjobs = <<>>
  /\ sOps = 0
  /\ seen = <<FALSE>>
  /\ nConnSubscribe = 0
  /\ released = FALSE
  /\ LET s == IF Immediate(c) THEN subscribe(SCore0, _args(c.args, "Steve")) ELSE SCore0
     IN /\ state = s.state
        /\ subscribed = s.subscribed
        /\ handle = s.handle
        /\ subs = s.subs

SInit == \E c \in SConfigs : SInitFor(c)

\* ---- operations of the caller and of the network
SMayAct == sOps < MaxSOps /\ sOps' = sOps + 1

SFlushPending == \E j \in 1..Len(smq) : smq[j] = "flush"

squeueFlush(q) == IF SFlushPending THEN q ELSE Append(q, "flush")

Subscribe ==
  /\ UNCHANGED <<pvars, fvars, bvars>>
  /\ SMayAct
  /\ SetSCore(subscribe(SCore, _args(scfg.args, sArgs)))
  /\ released' = FALSE
  /\ UNCHANGED <<scfg, seen, nConnSubscribe, suvars, snvars, sqvars>>

Unsubscribe ==
  /\ UNCHANGED <<pvars, fvars, bvars>>
  /\ SMayAct
  /\ SetSCore(unsubscribe(SCore, scfg.inline))
  /\ released' = TRUE
  /\ UNCHANGED <<scfg, seen, nConnSubscribe, suvars, snvars, sqvars>>

\* resubscribe() up to its `await nextTick()`
Resubscribe ==
  /\ UNCHANGED <<pvars, fvars, bvars>>
  /\ SMayAct
  /\ SetSCore(unsubscribe(SCore, scfg.inline))
  /\ IF SFlushPending
       THEN sdeferred' = sdeferred + 1 /\ UNCHANGED smq
       ELSE smq' = Append(smq, "resub") /\ UNCHANGED sdeferred
  /\ released' = FALSE
  /\ UNCHANGED <<scfg, seen, nConnSubscribe, suvars, snvars, sjobs>>

SChangeArgs(v) ==
  /\ UNCHANGED <<pvars, fvars, bvars>>
  /\ SMayAct
  /\ v \in ArgVals
  /\ v /= sArgs
  /\ sArgs' = v
  /\ IF SArgsWatched(scfg) /\ SourceFires(scfg.args) /\ ~sDisposed
       THEN sjobs' = queueJob(sjobs, "args") /\ smq' = squeueFlush(smq)
       ELSE UNCHANGED <<sjobs, smq>>
  /\ UNCHANGED <<scfg, shvars, kvars, sData, sError, sPaused, snvars, sdeferred>>

SPause ==
  /\ UNCHANGED <<pvars, fvars, bvars>>
  /\ UNCHANGED sOps
  /\ ~sPaused
  /\ sPaused' = TRUE
  /\ UNCHANGED <<scfg, shvars, kvars, sArgs, sData, sError, snvars, sqvars>>

SUnpause ==
  /\ UNCHANGED <<pvars, fvars, bvars>>
  /\ UNCHANGED sOps
  /\ sPaused
  /\ sPaused' = FALSE
  /\ UNCHANGED <<scfg, shvars, kvars, sArgs, sData, sError, snvars, sqvars>>

\* the socket opens or closes: isWebsocketConnected.value = b
SetConnected(b) ==
  /\ UNCHANGED <<pvars, fvars, bvars>>
  /\ SMayAct
  /\ connected /= b
  /\ connected' = b
  /\ IF ~sDisposed
       THEN sjobs' = queueJob(sjobs, "connected") /\ smq' = squeueFlush(smq)
       ELSE UNCHANGED <<sjobs, smq>>
  /\ UNCHANGED <<scfg, shvars, kvars, suvars, callbacks, sDisposed, connOld, hasEverConnected,
                 sdeferred>>

\* the owning scope is disposed: the callbacks are cleared, unsubscribe() is
\* called, and the watchers created in the scope are stopped
SDispose ==
  /\ UNCHANGED <<pvars, fvars, bvars>>
  /\ SMayAct
  /\ ~sDisposed
  /\ sDisposed' = TRUE
  /\ callbacks' = FALSE
  /\ SetSCore(unsubscribe(SCore, scfg.inline))
  /\ sjobs' = <<>>
  /\ UNCHANGED <<scfg, shvars, suvars, connected, connOld, hasEverConnected, smq, sdeferred>>

\* ---- microtasks
\* the callback of the argument watcher, up to the await inside resubscribe()
\* the pause flag not looked at
ArgsWatcherReturns_IgnoresPause(p, sub) == ~sub

\* line 843: if (paused.value || !_subscribed.value) return
ArgsWatcherReturns(p, sub) == p \/ ~sub

\* lines 842-846: the callback of the argument watcher, up to the await inside
\* resubscribe()
ArgsJob(s, sync) ==
  IF ~ArgsWatcherReturns(sPaused, s.subscribed)
    THEN [core |-> unsubscribe(s, sync), resub |-> 1]
    ELSE [core |-> s, resub |-> 0]

\* the job of the connected watcher calls back when the value differs from the
\* one it saw last
ConnFires == Queued(sjobs, "connected") /\ connected /= connOld

\* every connect re-subscribes, the first one included
Reconnected_EveryConnect(ever, current, previous) == current /\ ~previous

\* line 856: if (hasEverConnected && current && !previous)
Reconnected(ever, current, previous) == ever /\ current /\ ~previous

\* the callback of the connected watcher (current, previous)
ConnJob(s) ==
  IF ConnFires /\ Reconnected(hasEverConnected, connected, connOld)
    THEN subscribe(s, _args(scfg.args, sArgs))
    ELSE s

\* one queued job: r.core is the binding, r.resub the resubscribe() calls
\* waiting for the tick
SRunJob(r, j) ==
  IF j = "args"
    THEN LET a == ArgsJob(r.core, scfg.inline)
         IN [core |-> a.core, resub |-> r.resub + a.resub]
    ELSE [core |-> ConnJob(r.core), resub |-> r.resub]

\* the queued jobs, in the order they were queued
RECURSIVE SRunJobs(_, _)
SRunJobs(r, q) == IF q = <<>> THEN r ELSE SRunJobs(SRunJob(r, Head(q)), Tail(q))

\* flushJobs: the jobs of the watchers; then the continuations chained on the
\* flush promise are released
SFlush ==
  /\ UNCHANGED <<pvars, fvars, bvars>>
  /\ UNCHANGED sOps
  /\ smq /= <<>> /\ Head(smq) = "flush"
  /\ LET r == SRunJobs([core |-> SCore, resub |-> sdeferred], sjobs)
     IN /\ SetSCore(r.core)
        /\ smq' = Tail(smq) \o [j \in 1..r.resub |-> "resub"]
  /\ hasEverConnected' = (hasEverConnected \/ (ConnFires /\ connected))
  /\ connOld' = IF Queued(sjobs, "connected") THEN connected ELSE connOld
  /\ seen' = IF ConnFires THEN Append(seen, connected) ELSE seen
  /\ nConnSubscribe' =
       IF ConnFires /\ Reconnected(hasEverConnected, connected, connOld)
         THEN nConnSubscribe + 1 ELSE nConnSubscribe
  /\ sdeferred' = 0
  /\ sjobs' = <<>>
  /\ UNCHANGED <<scfg, suvars, callbacks, sDisposed, connected, released>>

\* resubscribe() resumes after `await nextTick()`: subscribe()
ResubContinue ==
  /\ UNCHANGED <<pvars, fvars, bvars>>
  /\ UNCHANGED sOps
  /\ smq /= <<>> /\ Head(smq) = "resub"
  /\ SetSCore(subscribe(SCore, _args(scfg.args, sArgs)))
  /\ smq' = Tail(smq)
  /\ UNCHANGED <<scfg, shvars, suvars, snvars, sdeferred, sjobs>>

\* ---- callbacks of the transport
OnStarted(k) ==
  /\ UNCHANGED <<pvars, fvars, bvars>>
  /\ UNCHANGED sOps
  /\ k \in 1..Len(subs) /\ subs[k].phase = "open"
  /\ Accepts(subs[k].args)
  /\ subs' = [subs EXCEPT ![k].phase = "started"]
  /\ state' = "started"
  /\ UNCHANGED <<scfg, shvars, subscribed, handle, suvars, snvars, sqvars>>

OnData(k) ==
  /\ UNCHANGED <<pvars, fvars, bvars>>
  /\ UNCHANGED sOps
  /\ k \in 1..Len(subs) /\ subs[k].phase = "started"
  /\ sData /= Emitted(subs[k].args)
  /\ sData' = Emitted(subs[k].args)
  /\ UNCHANGED <<scfg, shvars, kvars, sArgs, sError, sPaused, snvars, sqvars>>

\* every error unsubscribes
SubscribedAfterError_Cleared(conn, sub) == FALSE

\* line 796: if (!connected.value) _subscribed.value = false
SubscribedAfterError(conn, sub) == IF ~conn THEN FALSE ELSE sub

\* the subscription fails; the observable is done after an error
OnError(k) ==
  /\ UNCHANGED <<pvars, fvars, bvars>>
  /\ UNCHANGED sOps
  /\ k \in 1..Len(subs) /\ subs[k].phase \in {"open", "started"}
  /\ subs' = [subs EXCEPT ![k].phase = "done"]
  /\ subscribed' = SubscribedAfterError(connected, subscribed)
  /\ sError' = RemoteError
  /\ UNCHANGED <<scfg, shvars, state, handle, sArgs, sData, sPaused, snvars, sqvars>>

OnComplete(k) ==
  /\ UNCHANGED <<pvars, fvars, bvars>>
  /\ UNCHANGED sOps
  /\ k \in 1..Len(subs) /\ subs[k].phase \in {"open", "started", "closing"}
  /\ subs[k].phase = "closing" \/ Accepts(subs[k].args)
  /\ subs' = [subs EXCEPT ![k].phase = "done"]
  /\ state' = "completed"
  /\ UNCHANGED <<scfg, shvars, subscribed, handle, suvars, snvars, sqvars>>

\* the server acknowledges the stop of a subscription the client unsubscribed
OnStopped(k) ==
  /\ UNCHANGED <<pvars, fvars, bvars>>
  /\ UNCHANGED sOps
  /\ k \in 1..Len(subs) /\ subs[k].phase = "closing"
  /\ subs' = [subs EXCEPT ![k].phase = "done"]
  /\ state' = "stopped"
  /\ UNCHANGED <<scfg, shvars, subscribed, handle, suvars, snvars, sqvars>>

SNext ==
  \/ Subscribe
  \/ Unsubscribe
  \/ Resubscribe
  \/ \E v \in ArgVals : SChangeArgs(v)
  \/ SPause
  \/ SUnpause
  \/ \E b \in BOOLEAN : SetConnected(b)
  \/ SDispose
  \/ SFlush
  \/ ResubContinue
  \/ \E k \in 1..Len(subs) : OnStarted(k)
  \/ \E k \in 1..Len(subs) : OnData(k)
  \/ \E k \in 1..Len(subs) : OnError(k)
  \/ \E k \in 1..Len(subs) : OnComplete(k)
  \/ \E k \in 1..Len(subs) : OnStopped(k)

\* ----------------------------------------------- the registry of a facade
\* the query / mutation bindings made from one useTRPC(), each reduced to what
\* its execute() does to the registry: lines 659-662 when an execution starts
\* and lines 664-665 when it ends
Bindings == {"b1", "b2"}

\* procedureConfig.msg of the bindings: one labelled, one without a label
Label(b) == IF b = "b1" THEN "load" ELSE UNDEF

NoneHeld == [b \in Bindings |-> Zero]

\* execute() on a binding that is not executing, up to its await
FStart(b) ==
  /\ UNCHANGED <<svars, bvars, rvars>>
  /\ nStarted < MaxStarts
  /\ ~AlreadyExecuting(held[b] /= Zero)
  /\ id' = addExecutionId(id)
  /\ activeExecutions' = addExecution(activeExecutions, id', Label(b))
  /\ held' = [held EXCEPT ![b] = id']
  /\ startOrder' = Append(startOrder, b)
  /\ nStarted' = nStarted + 1
  /\ UNCHANGED <<cfg, ivars, uvars, cvars, executing, acts, mq, deferred, tick, nAdd,
                 wvars, hvars>>

\* execute() resumes after its await: _executing.value = false; removeExecution(id)
FFinish(b) ==
  /\ UNCHANGED <<svars, bvars, rvars>>
  /\ held[b] /= Zero
  /\ activeExecutions' = removeExecution(activeExecutions, held[b])
  /\ held' = [held EXCEPT ![b] = Zero]
  /\ startOrder' = SelectSeq(startOrder, LAMBDA x : x /= b)
  /\ UNCHANGED <<cfg, ivars, uvars, cvars, executing, id, acts, nStarted, mq, deferred,
                 tick, nAdd, wvars, hvars>>

\* ---------------------------------------------------------- construction
\* the config of useTRPC: which of url, wsUrl and client are supplied, and what
\* kind of value headers is; then the inputs of one useQuery / useMutation call
\* and of one useSubscription call
BuildConfig(u, w, c, h, a, r, sr) ==
  [url |-> u, wsUrl |-> w, client |-> c, headers |-> h,
   args |-> a, reactive |-> r, sreactive |-> sr]

BuildConfigs ==
  {BuildConfig(u, w, c, h, a, r, sr) :
     u \in BOOLEAN, w \in BOOLEAN, c \in BOOLEAN, h \in SourceKinds,
     a \in SourceKinds, r \in ReactiveOpts, sr \in Tri}

\* only the http link counts
clientOptions_NeedsUrl(c) ==
  IF c.client THEN "client"
  ELSE IF c.url /\ c.wsUrl THEN "split"
  ELSE IF c.url THEN "http"
  ELSE UNDEF

\* lines 494-514: the custom client config, or the links made from url and wsUrl
clientOptions(c) ==
  IF c.client THEN "client"
  ELSE IF c.url /\ c.wsUrl THEN "split"
  ELSE IF c.url THEN "http"
  ELSE IF c.wsUrl THEN "ws"
  ELSE UNDEF

\* lines 865-873: what useTRPC returns
Returned ==
  {"client", "isExecuting", "executions", "connected", "useQuery", "useMutation",
   "useSubscription"}

NotBuilt ==
  [facade |-> "none", returned |-> {}, query |-> FALSE, headersWatched |-> FALSE,
   argsWatched |-> FALSE, subscription |-> FALSE, sArgsWatched |-> FALSE]

\* useTRPC(config): line 516 throws, or line 865 returns
UseTRPC ==
  /\ UNCHANGED <<pvars, svars, fvars>>
  /\ built.facade = "none"
  /\ built' = IF clientOptions(config) = UNDEF
                THEN [built EXCEPT !.facade = "thrown"]
                ELSE [built EXCEPT !.facade = clientOptions(config), !.returned = Returned]
  /\ UNCHANGED config

\* useQuery(procedure, args, { reactive }): the watchers it installs
UseQuery ==
  /\ UNCHANGED <<pvars, svars, fvars>>
  /\ "useQuery" \in built.returned
  /\ ~built.query
  /\ built' = [built EXCEPT !.query = TRUE,
                            !.headersWatched = HeadersWatched(config),
                            !.argsWatched = ArgsWatched(config)]
  /\ UNCHANGED config

\* useSubscription(topic, args, { reactive }): the watcher it installs
UseSubscription ==
  /\ UNCHANGED <<pvars, svars, fvars>>
  /\ "useSubscription" \in built.returned
  /\ ~built.subscription
  /\ built' = [built EXCEPT !.subscription = TRUE,
                            !.sArgsWatched =
                               SArgsWatched([args |-> config.args,
                                             reactive |-> config.sreactive])]
  /\ UNCHANGED config

\* ------------------------------------------------------- specifications
\* a binding that is constructed and left alone
PIdle == PInitFor(Config("plain", "none", ReactiveUnset, FALSE))
SIdle == SInitFor(SConfig("plain", "undefined", "false", TRUE))
FIdle == held = NoneHeld /\ startOrder = <<>>
BIdle ==
  /\ config = BuildConfig(TRUE, FALSE, FALSE, "none", "plain", ReactiveUnset, "undefined")
  /\ built = NotBuilt

\* one query / mutation binding
Init == PInit /\ SIdle /\ FIdle /\ BIdle
Next == PNext
Spec == Init /\ [][Next]_vars

\* one subscription binding
SubInit == PIdle /\ SInit /\ FIdle /\ BIdle
SubNext == SNext
SubSpec == SubInit /\ [][SubNext]_vars

\* a query over tracked reactive arguments that is never paused, whose remote
\* calls all succeed and whose only triggers are argument changes
ReactiveInit ==
  /\ PInitFor(Config("reactive", "reactive", ReactiveUnset, FALSE))
  /\ SIdle /\ FIdle /\ BIdle

ReactiveNext ==
  \/ \E v \in ArgVals : ChangeArgs(v)
  \/ Flush
  \/ \E a \in acts : RunExecute(a, "value")
  \/ \E a \in acts : Transport(a, "ok")
  \/ \E a \in acts : Settle(a)
  \/ \E a \in acts : Follow(a)
  \/ \E a \in acts : Finish(a)

ReactiveSpec == ReactiveInit /\ [][ReactiveNext]_vars

\* the registry of a facade with two bindings.  It starts fresh, or with the id
\* counter about to wrap: after MAX_SAFE_INTEGER - 1 executions that have all
\* ended, or after as many of which the very first, of b1, is still running
FacadeInit ==
  /\ SIdle /\ BIdle
  /\ cfg = Config("plain", "none", ReactiveUnset, FALSE)
  /\ args = "Steve" /\ data = cfg.initialData /\ error = UNDEF /\ paused = FALSE
  /\ abortController = 0 /\ aborted = {} /\ disposed = FALSE /\ atDispose = {}
  /\ executing = FALSE /\ acts = {} /\ nStarted = 0 /\ mq = <<>> /\ deferred = <<>>
  /\ tick = NoTick /\ nAdd = 0 /\ jobs = <<>> /\ argsOld = "Steve"
  /\ headersOld = Headers
  /\ argsTracked = FALSE /\ headersTracked = FALSE
  /\ isExecutingRef = Computed("live", FALSE)
  /\ executionsRef = Computed("live", <<>>)
  /\ nDel = 0 /\ nDelMiss = 0 /\ rejected = FALSE
  /\ immediatePromise = UNDEF /\ dataWritten = FALSE
  /\ \/ id = Zero /\ activeExecutions = <<>> /\ FIdle
     \/ id = Pred(MAX_SAFE_INTEGER) /\ activeExecutions = <<>> /\ FIdle
     \/ /\ id = Pred(MAX_SAFE_INTEGER)
        /\ activeExecutions = addExecution(<<>>, One, Label("b1"))
        /\ held = [NoneHeld EXCEPT !["b1"] = One]
        /\ startOrder = <<"b1">>

FacadeNext ==
  \/ \E b \in Bindings : FStart(b)
  \/ \E b \in Bindings : FFinish(b)

FacadeSpec == FacadeInit /\ [][FacadeNext]_vars

\* the microtask at the head of the queue runs
Microtask ==
  \/ ExecuteReturned
  \/ ResolveImmediate
  \/ Flush
  \/ \E a \in acts : \E o \in {"value", "throw"} : RunExecute(a, o)
  \/ \E a \in acts : ArgsContinue(a)
  \/ \E a \in acts : Settle(a)
  \/ \E a \in acts : Follow(a)
  \/ \E a \in acts : Finish(a)

\* the caller and the runtime, without the operations that only assign data
\* or abort the signal of a call
LiveNext ==
  \/ Execute
  \/ ExecuteReturned
  \/ ResolveImmediate
  \/ \E v \in ArgVals \cup {UNDEF} : ChangeArgs(v)
  \/ ChangeHeaders
  \/ Pause
  \/ Unpause
  \/ Dispose
  \/ ReadIsExecuting
  \/ ReadExecutions
  \/ Flush
  \/ \E a \in acts : \E o \in {"value", "throw"} : RunExecute(a, o)
  \/ \E a \in acts : ArgsResolve(a)
  \/ \E a \in acts : ArgsContinue(a)
  \/ \E a \in acts : \E o \in {"ok", "err"} : Transport(a, o)
  \/ \E a \in acts : Settle(a)
  \/ \E a \in acts : Follow(a)
  \/ \E a \in acts : Finish(a)

\* a query / mutation binding whose microtasks run, whose asynchronous accessor
\* settles and whose remote calls settle
LiveSpec ==
  /\ Init
  /\ [][LiveNext]_vars
  /\ WF_vars(Microtask)
  /\ WF_vars(\E a \in acts : ArgsResolve(a))
  /\ WF_vars(\E a \in acts : \E o \in {"ok", "err"} : Transport(a, o))

\* the construction of a facade and of its bindings, for every kind of input
BuildInit ==
  /\ PIdle /\ SIdle /\ FIdle
  /\ config \in BuildConfigs
  /\ built = NotBuilt

BuildNext ==
  \/ UseTRPC
  \/ UseQuery
  \/ UseSubscription

BuildSpec == BuildInit /\ [][BuildNext]_vars

\* ------------------------------------------------------------------ claims
Ids(reg) == {reg[j].id : j \in 1..Len(reg)}
Outstanding == {a \in acts : a.pc = "call"}
Quiescent == ~executing /\ mq = <<>> /\ jobs = <<>> /\ acts = {}

\* C1 (as stated): whenever a scheduling tick that saw at least one trigger has
\* ended, exactly one remote call was issued in it.
C1_ExactlyOneCallPerTick ==
  (mq = <<>> /\ tick.triggers >= 1) => tick.calls = 1

\* C1 (amended): all the triggers that arrive while an execution is running are
\* served by that one execution, and an execution issues at most one remote
\* call: none before its arguments are resolved, exactly one afterwards unless
\* the argument accessor returned undefined or threw.
C1_OneCallPerExecution ==
  /\ Cardinality(acts) <= 1
  /\ \A a \in acts :
       /\ a.pc \in {"tick", "args"} => a.calls = 0
       /\ a.pc \in {"call", "settled"} => a.calls = 1
       /\ a.pc = "finish" =>
            a.calls = (IF a.out = "throw" \/ (a.out = "value" /\ a.argv = UNDEF)
                         THEN 0 ELSE 1)

\* two triggers of one tick, one remote call outstanding
C1_Witness ==
  /\ tick.triggers >= 2
  /\ tick.calls = 1
  /\ \E a \in acts : a.pc = "call" /\ a.calls = 1

\* C2: at most one execution of the binding is in flight: one activation, one
\* registry record, one outstanding remote call, and executing is true while
\* that activation runs (so a trigger that finds executing true started
\* nothing: no activation, no record, no call).
C2_AtMostOneInFlight ==
  /\ Cardinality(acts) <= 1
  /\ Len(activeExecutions) <= 1
  /\ Cardinality(Outstanding) <= 1
  /\ acts /= {} => executing
  /\ nAdd = nStarted

\* an execute() arrived while the remote call was outstanding and returned
C2_Witness ==
  /\ executing
  /\ mq = <<>>
  /\ tick = [triggers |-> 1, calls |-> 0]
  /\ Outstanding /= {}
  /\ Len(activeExecutions) = 1

\* C3: every started execution added exactly one record, the records in the
\* registry are exactly those of the running executions, and every execution
\* that ended removed exactly its own record (no removal missed its record).
C3_OneRecordPerExecution ==
  /\ nAdd = nStarted
  /\ nDelMiss = 0
  /\ nDel + Cardinality(acts) = nAdd
  /\ Len(activeExecutions) = Cardinality(acts)
  /\ Ids(activeExecutions) = {a.id : a \in acts}

\* C4: a failure of the remote call or of the argument accessor is stored in
\* error, no promise returned by execute() rejects, and the bookkeeping is
\* released: executing is true only while an activation runs and the registry
\* is empty when none does.
C4_FailureIsContained ==
  /\ ~rejected
  /\ \A a \in acts :
       /\ a.pc /= "throw"
       /\ (a.pc = "finish" /\ a.out = "err") => error = RemoteError
       /\ (a.pc = "finish" /\ a.out = "throw") => error = ArgsError
  /\ executing => acts /= {}
  /\ acts = {} => activeExecutions = <<>>

\* C5: for a tracked, never paused query, once an argument change has been
\* served and the binding is at rest again, data is the remote result for the
\* current value of the argument.
C5_DataFollowsArgs ==
  (nStarted >= 1 /\ Quiescent) => data = Result(args)

\* C9: a remote call whose signal has been aborted never writes its response
\* into data.
C9_NoStaleWrite ==
  [][\A a \in acts :
       (a.pc = "settled" /\ a.out = "ok" /\ a.token \in aborted /\ Settle(a))
       => data' = data]_vars

\* C10: once the scope is disposed, the remote call of an execution that was
\* in flight at the disposal is never outstanding with a signal that is not
\* aborted.
C10_DisposeCancels ==
  disposed => \A a \in Outstanding : a.n \in atDispose => a.token \in aborted

RECURSIVE TotalUnsub(_)
TotalUnsub(ss) == IF ss = <<>> THEN 0 ELSE Head(ss).unsub + TotalUnsub(Tail(ss))
OpenSubs(ss) == {k \in 1..Len(ss) : ss[k].unsub = 0}

\* C6: the stored unsubscribe handle is present if and only if subscribed is
\* true.
C6_HandleIffSubscribed ==
  (handle /= 0) <=> subscribed

\* C7: subscribe() on a subscribed binding opens no transport subscription and
\* leaves subscribed, state and the stored handle as they are.
C7_SubscribeTwiceIsNoop ==
  [][(subscribed /\ Subscribe) => UNCHANGED <<subs, subscribed, state, handle>>]_vars

\* C8: unsubscribe() on a subscribed binding invokes the stored transport
\* handle exactly once and sets subscribed to false; on a binding that is not
\* subscribed it invokes no transport handle and changes nothing.
C8_UnsubscribeContract ==
  [][Unsubscribe =>
       IF subscribed
         THEN /\ ~subscribed'
              /\ TotalUnsub(subs') = TotalUnsub(subs) + 1
              /\ handle /= 0 /\ subs'[handle].unsub = 1
         ELSE UNCHANGED <<kvars, suvars, snvars, sqvars>>]_vars

\* the observed transitions false -> true that follow an observed true -> false
Reconnects(w) ==
  {j \in 2..Len(w) : w[j] /\ ~w[j - 1] /\ \E i \in 1..(j - 2) : w[i] /\ ~w[i + 1]}

\* C11: the connected watcher has called subscribe() once for every observed
\* transition false -> true that followed an observed transition true -> false,
\* paused or not, and never for the first connect.
C11_ReconnectSubscribes ==
  nConnSubscribe = Cardinality(Reconnects(seen))

\* a paused binding was re-subscribed by a reconnect
C11_Witness ==
  /\ sPaused
  /\ nConnSubscribe = 1
  /\ seen = <<FALSE, TRUE, FALSE, TRUE>>

\* the transport subscriptions that deliver to the binding: not ended and not
\* unsubscribed
Live(ss) == {k \in 1..Len(ss) : ss[k].phase \in {"open", "started"} /\ ss[k].unsub = 0}

\* C12: once the owning scope is disposed the binding is not subscribed, no
\* transport subscription of it is open, and the user callbacks stay cleared.
C12_DisposedStaysUnsubscribed ==
  sDisposed => (~subscribed /\ Live(subs) = {} /\ ~callbacks)

\* the resubscribe() continuations in a microtask queue
Resubs(q) == {j \in 1..Len(q) : q[j] = "resub"}

\* C13: when the argument watcher fires while the binding is paused or not
\* subscribed (and the connected watcher does not fire with it), no transport
\* subscription is unsubscribed or opened, subscribed, state and the stored
\* handle stay as they are, and no resubscription is queued: the only
\* continuations released are those of earlier resubscribe() calls.
C13_SuppressedFiringIsNoop ==
  [][(SFlush /\ Queued(sjobs, "args") /\ ~Queued(sjobs, "connected")
        /\ (sPaused \/ ~subscribed))
     => /\ UNCHANGED <<kvars, suvars>>
        /\ Cardinality(Resubs(smq')) = Cardinality(Resubs(smq)) + sdeferred
        /\ sdeferred' = 0 /\ sjobs' = <<>>]_vars

\* the arguments changed under a paused, subscribed binding, the watcher has
\* fired, and the subscription opened at construction is still the only one
C13_Witness ==
  /\ sPaused /\ subscribed
  /\ sArgs /= "Steve"
  /\ smq = <<>> /\ sjobs = <<>>
  /\ Len(subs) = 1 /\ subs[1].unsub = 0 /\ subs[1].args = "Steve"

\* C14: when the argument watcher fires on a subscribed binding that is not
\* paused, every transport subscription that was open is unsubscribed and a
\* resubscription is queued; when the resubscription completes the binding is
\* subscribed, and the transport subscription it opens carries the arguments
\* current at that moment.
C14_ResubscribesWithLatestArgs ==
  [][/\ (SFlush /\ Queued(sjobs, "args") /\ subscribed /\ ~sPaused)
        => /\ \A k \in Live(subs) : subs'[k].unsub >= 1
           /\ Resubs(smq') /= {}
     /\ ResubContinue
        => /\ subscribed'
           /\ ~subscribed => (Len(subs') = Len(subs) + 1 /\ subs'[Len(subs')].args = sArgs)]_vars

\* C15: when the argument watcher fires on a paused binding whose state is
\* 'started', state stays 'started' and the open transport subscriptions stay
\* as they are; when it fires on a subscribed binding that is not paused (the
\* change after unpause()), exactly one transport unsubscribe is made and
\* exactly one resubscription is queued.
C15_PauseThenOneResubscription ==
  [][/\ (SFlush /\ Queued(sjobs, "args") /\ sPaused /\ state = "started")
        => /\ state' = "started"
           /\ \A k \in Live(subs) : subs'[k] = subs[k]
     /\ (SFlush /\ Queued(sjobs, "args") /\ ~sPaused /\ subscribed)
        => /\ TotalUnsub(subs') = TotalUnsub(subs) + 1
           /\ Cardinality(Resubs(smq')) = Cardinality(Resubs(smq)) + sdeferred + 1]_vars

\* C16: state starts as 'created' and never returns to 'created' once left,
\* and whenever a subscribe opens a transport subscription after an earlier
\* one, state is not 'started' at that moment.
C16_TerminalBetweenStarted ==
  /\ state = "created"
  /\ [][/\ state /= "created" => state' /= "created"
        /\ (Len(subs) >= 1 /\ Len(subs') > Len(subs)) => state /= "started"]_vars

\* C17: a header or argument watcher that fires while paused starts nothing
\* (executing, the registry, the activations and the issued calls stay as they
\* are), and a manual execute() on a paused binding that is not executing
\* starts an execution: executing becomes true and one record is added.
C17_PauseSuppressesWatchersOnly ==
  [][/\ (Flush /\ paused)
        => /\ UNCHANGED <<executing, activeExecutions, nStarted, nAdd, id>>
           /\ {<<a.n, a.id, a.calls>> : a \in acts'} = {<<a.n, a.id, a.calls>> : a \in acts}
           /\ Outstanding' = Outstanding
     /\ (Execute /\ paused /\ ~executing)
        => /\ executing'
           /\ nStarted' = nStarted + 1
           /\ Len(activeExecutions') = Len(activeExecutions) + 1]_vars

\* on a paused binding the watchers have fired for a change of the tracked
\* arguments without starting anything
C17_Witness ==
  /\ paused
  /\ ArgsWatched(cfg) /\ ~cfg.immediate
  /\ args /= "Steve"
  /\ mq = <<>> /\ jobs = <<>>
  /\ nStarted = 0

\* the execution started by the construction
First == {a \in acts : AwaitedByImmediate(a)}

\* C18: with immediate, the construction starts exactly one execution and
\* immediatePromise is a promise that is pending while that execution runs:
\* it is resolved only once the execution has ended, by success or failure,
\* and a successful first call has written its result into data while the
\* promise was still pending.  Without immediate the construction starts no
\* execution and immediatePromise is undefined.
C18_ImmediatePromise ==
  /\ IF cfg.immediate
       THEN nStarted = 1 /\ executing /\ immediatePromise = "pending"
       ELSE nStarted = 0 /\ ~executing /\ immediatePromise = UNDEF
  /\ [](/\ ~cfg.immediate => immediatePromise = UNDEF
        /\ cfg.immediate => immediatePromise \in {"pending", "resolved"}
        /\ immediatePromise = "resolved" => First = {}
        /\ immediatePromise = "pending" =>
             (First /= {} \/ \E j \in 1..Len(mq) : mq[j] = ImmTask))
  /\ [][\A a \in First :
          (a.pc = "settled" /\ a.out = "ok" /\ Settle(a))
          => (data' = Result(a.argv) /\ immediatePromise' = "pending")]_vars

\* immediatePromise has resolved after a successful first call, and data is
\* the remote result
C18_Witness ==
  /\ cfg.immediate
  /\ immediatePromise = "resolved"
  /\ nStarted = 1
  /\ error = UNDEF
  /\ data = Result("Steve")

\* C19: when the promise returned by an execute() call resolves, whether the
\* call started an execution or found one running, executing is false; and a
\* remote call that succeeded has written its result into data before.
C19_ResolvedMeansDone ==
  [][/\ (ExecuteReturned \/ \E a \in acts : Finish(a)) => ~executing'
     /\ \A a \in acts :
          (a.pc = "settled" /\ a.out = "ok" /\ Settle(a))
          => data' = Result(a.argv)]_vars

\* C20: without immediate, data is initialData in every state in which no
\* remote call of the binding has succeeded and clear() has not been called,
\* whatever executions failed or were skipped meanwhile.
C20_InitialDataUntilSuccess ==
  (~cfg.immediate /\ ~dataWritten) => data = cfg.initialData

\* two executions have ended, by a failure and by an accessor that returned
\* undefined, and data is still initialData
C20_Witness ==
  /\ ~cfg.immediate /\ ~dataWritten
  /\ nDel = 2
  /\ error = RemoteError
  /\ args = UNDEF
  /\ acts = {}
  /\ data = cfg.initialData

\* the activations whose argument accessor returned undefined
Skipped == {a \in acts : a.out = "value" /\ a.argv = UNDEF /\ a.pc \in {"args", "finish"}}

\* C21: an execution whose argument accessor returned undefined issues no
\* remote call and leaves data, error and the cancellation token as they are
\* when _execute returns, and when execute() ends executing is false and the
\* record of the execution is out of the registry.
C21_UndefinedArgsSkipTheCall ==
  [][\A a \in Skipped :
       /\ a.calls = 0
       /\ (a.pc = "args" /\ ArgsContinue(a))
          => /\ UNCHANGED <<data, error, abortController, aborted>>
             /\ \E b \in acts' : b.n = a.n /\ b.pc = "finish" /\ b.calls = 0
       /\ (a.pc = "finish" /\ Finish(a))
          => /\ ~executing'
             /\ HasKey(activeExecutions, a.id) /\ ~HasKey(activeExecutions', a.id)
             /\ nDel' = nDel + 1]_vars

\* the only execution of the binding has ended without a result and without
\* an error
C21_Witness ==
  /\ areArgsFn(cfg.args)
  /\ nStarted = 1 /\ nDel = 1
  /\ acts = {} /\ ~executing /\ activeExecutions = <<>>
  /\ error = UNDEF /\ ~dataWritten /\ data = cfg.initialData

Executing == {b \in Bindings : held[b] /= Zero}

\* C22: the executing bindings hold pairwise different ids, each with its own
\* record in the registry: no start overwrote and no end removed the record
\* of another running execution.
C22_ActiveIdsAreDistinct ==
  /\ \A b \in Executing : \A c \in Executing : held[b] = held[c] => b = c
  /\ \A b \in Executing : HasKey(activeExecutions, held[b])
  /\ Len(activeExecutions) = Cardinality(Executing)

\* C23: executions is the sequence of the labels of the executing bindings in
\* the order their executions started, and isExecuting is true exactly when
\* some binding is executing.
C23_ExecutionsAreTheActiveLabels ==
  /\ executions = [j \in 1..Len(startOrder) |-> Label(startOrder[j])]
  /\ {startOrder[j] : j \in 1..Len(startOrder)} = Executing
  /\ isExecuting <=> Executing /= {}

\* C24: an onError of the transport stores the error in error; subscribed
\* becomes false if the connectivity signal is false at that moment and is
\* left as it is otherwise; state is not changed.
C24_ErrorKeepsSubscribedWhileConnected ==
  [][(\E k \in 1..Len(subs) : OnError(k))
     => /\ sError' = RemoteError
        /\ subscribed' = (connected /\ subscribed)
        /\ UNCHANGED <<state, handle, sData>>]_vars

\* a started subscription failed while connected: the error is stored and the
\* binding is still subscribed and 'started'
C24_Witness ==
  /\ sError = RemoteError
  /\ connected /\ subscribed /\ state = "started"
  /\ Len(subs) = 1 /\ subs[1].phase = "done" /\ subs[1].unsub = 0

\* C25: with immediate unset or true the construction has opened exactly one
\* transport subscription; with immediate: false it has opened none, state is
\* 'created' as long as none is opened, and the first one is opened by nothing
\* but an explicit subscribe() or the continuation of a resubscribe().
C25_NothingOpensBeforeSubscribe ==
  /\ IF Immediate(scfg)
       THEN Len(subs) = 1 /\ subscribed /\ handle = 1
       ELSE subs = <<>> /\ ~subscribed /\ state = "created"
  /\ [](subs = <<>> => state = "created")
  /\ [][(~Immediate(scfg) /\ subs = <<>> /\ subs' /= <<>>)
          => (Subscribe \/ ResubContinue)]_vars

\* C26: an input given as an async function gets no watcher, whatever the
\* reactive override: headers and arguments of a query / mutation binding,
\* arguments of a subscription binding.
C26_AsyncAccessorNeverWatched ==
  /\ (built.query /\ config.headers = "asyncFn") => ~built.headersWatched
  /\ (built.query /\ config.args = "asyncFn") => ~built.argsWatched
  /\ (built.subscription /\ config.args = "asyncFn") => ~built.sArgsWatched

\* the explicit override of one field: reactive itself when it is a boolean,
\* reactive.headers / reactive.args when it is an object (line 421)
Override(r, field) ==
  IF r.kind = "boolean" THEN r.value
  ELSE IF r.kind = "object" THEN r[field]
  ELSE "undefined"

\* a supplied input that is not an async function
Synchronous == {"plain", "reactive", "fn"}

Decided(k, o) ==
  IF o = "true" THEN TRUE
  ELSE IF o = "false" THEN FALSE
  ELSE k = "reactive"

\* C27: for a synchronous input of a query / mutation binding the watcher is
\* installed as the explicit override says (reactive true / false, or the
\* field's own entry of a reactive object), and without an override exactly
\* when the value is a reactive container.
C27_OverrideElseReactiveContainer ==
  built.query =>
    /\ config.headers \in Synchronous =>
         built.headersWatched = Decided(config.headers, Override(config.reactive, "headers"))
    /\ config.args \in Synchronous =>
         built.argsWatched = Decided(config.args, Override(config.reactive, "args"))

\* an accessor left alone is not watched, while a reactive container next to it is
C27_Witness ==
  /\ built.query
  /\ config.args = "fn" /\ Override(config.reactive, "args") = "undefined"
  /\ ~built.argsWatched
  /\ config.headers = "reactive" /\ Override(config.reactive, "headers") = "undefined"
  /\ built.headersWatched

\* C29: useTRPC throws exactly when none of url, wsUrl and client is supplied;
\* otherwise it returns client, the registry signals isExecuting, executions and
\* connected, and the factories useQuery, useMutation and useSubscription.
C29_ThrowsExactlyWithoutTransport ==
  built.facade /= "none" =>
    /\ built.facade = "thrown" <=> ~(config.url \/ config.wsUrl \/ config.client)
    /\ built.facade /= "thrown" =>
         {"isExecuting", "executions", "connected", "useQuery", "useMutation",
          "useSubscription"} \subseteq built.returned

\* nothing is supplied and useTRPC has thrown
C29_Witness ==
  /\ ~config.url /\ ~config.wsUrl /\ ~config.client
  /\ built.facade = "thrown"
  /\ built.returned = {}

\* C28 as stated: data and error change only in the internal execute step of
\* an execution; no other function the binding returns changes them.
C28_OnlyTheExecuteStepWrites ==
  [][(data' /= data \/ error' /= error)
       => \E a \in acts : \/ Settle(a)
                          \/ ArgsContinue(a)
                          \/ RunExecute(a, "throw")]_vars

\* C28 amended: data changes only when a successful call settles, when reset()
\* puts initialData back and when clear() empties it; error changes only when a
\* call fails or the argument accessor throws in the execute step. Nothing
\* else the binding returns (execute itself, pause, unpause, the abort
\* controller) and no watcher or disposal changes them.
C28_ExecuteStepResetAndClearWrite ==
  [][/\ data' /= data =>
          \/ (\E a \in acts : Settle(a) /\ a.out = "ok" /\ data' = Result(a.argv))
          \/ (Reset /\ data' = cfg.initialData)
          \/ (Clear /\ data' = UNDEF)
     /\ error' /= error =>
          \E a \in acts :
             \/ (Settle(a) /\ a.out = "err" /\ error' = RemoteError)
             \/ (ArgsContinue(a) /\ a.out = "throw" /\ error' = ArgsError)
             \/ (RunExecute(a, "throw") /\ error' = ArgsError)]_vars

\* a call succeeded, another failed, and reset() has put the initial data back
C28_Witness ==
  /\ dataWritten
  /\ data = cfg.initialData
  /\ error = RemoteError

\* the activation with number n, before and after a step
Before(n) == CHOOSE a \in acts : a.n = n
After(n) == CHOOSE a \in acts' : a.n = n

C31_ResubscribeUnsubscribesFirst ==
  [][/\ Resubscribe =>
          /\ ~subscribed'
          /\ Len(subs') = Len(subs)
          /\ \A k \in 1..Len(subs) :
               subs[k].phase \in {"open", "started"} => subs'[k].unsub > 0
     /\ (ResubContinue /\ Len(subs') > Len(subs)) =>
          \A k \in 1..Len(subs) : subs[k].unsub > 0 \/ subs[k].phase = "done"]_vars

\* C32: pause() and unpause() change the paused flag and nothing else of the
\* binding, and the execution in flight goes on whatever the flag is: its step
\* after the call publishes the result or the error, and its last step lowers
\* executing and removes its registry record.
C32_PauseLeavesTheExecutionAlone ==
  [][/\ (Pause \/ Unpause) =>
          /\ paused' = ~paused
          /\ UNCHANGED <<args, data, error, cvars, evars, wvars, hvars, ivars>>
     /\ \A a \in acts :
          /\ (a.pc = "settled" /\ a.out = "ok" /\ Settle(a)) => data' = Result(a.argv)
          /\ (a.pc = "settled" /\ a.out = "err" /\ Settle(a)) => error' = RemoteError
          /\ (a.pc = "finish" /\ Finish(a)) =>
               /\ ~executing'
               /\ ~HasKey(activeExecutions', a.id)
               /\ a \notin acts']_vars

\* the execution started by the construction, before any pause() could be
\* called, has made its call and published the result on a binding that has
\* been paused meanwhile, and is about to release executing and its record
C32_Witness ==
  /\ cfg.immediate /\ nStarted = 1
  /\ paused
  /\ executing /\ isExecuting
  /\ dataWritten /\ data = Result(args)
  /\ \E a \in acts : a.n = 1 /\ a.pc = "finish" /\ a.calls = 1 /\ a.out = "ok"

\* the transport subscriptions that have been opened, have not ended, and whose
\* unsubscribe function has not been invoked
NotUnsubscribed == {k \in 1..Len(subs) : subs[k].unsub = 0 /\ subs[k].phase \in {"open", "started"}}

\* C33: at any time at most one transport subscription of the binding has been
\* opened and not yet unsubscribed.
C33_AtMostOneOpenSubscription == Cardinality(NotUnsubscribed) <= 1

\* a second transport subscription has been opened after the first one was
\* unsubscribed, and it is the only one still open
C33_Witness ==
  /\ Len(subs) = 2
  /\ subs[1].unsub > 0
  /\ NotUnsubscribed = {2}
  /\ subscribed

\* C34: as long as the caller's last call was unsubscribe(), the binding is
\* not subscribed and none of its transport subscriptions is open: neither a
\* connectivity change nor the continuation of a resubscription begun before
\* the unsubscribe() re-opens it.
C34_UnsubscribedUntilTheCallerSubscribes ==
  released => (~subscribed /\ NotUnsubscribed = {})

\* C35: once a newer transport subscription has been opened, a callback of an
\* earlier subscription that the binding has unsubscribed (onData, onComplete,
\* onStopped) changes neither data nor state.
C35_LateCallbacksAreIgnored ==
  [][\A k \in 1..Len(subs) :
       (/\ k < Len(subs)
        /\ subs[k].unsub > 0
        /\ OnData(k) \/ OnComplete(k) \/ OnStopped(k))
       => UNCHANGED <<sData, state>>]_vars

\* C36: the step in which a call settles successfully and the step in which
\* an execution is skipped leave error as it is, and an error that is set is
\* only ever replaced by the error of another failure.
C36_SuccessKeepsTheError ==
  [][/\ \A a \in acts :
          /\ (a.pc = "settled" /\ a.out = "ok" /\ Settle(a)) => error' = error
          /\ (a.pc = "args" /\ a.out /= "throw" /\ ArgsContinue(a)) => error' = error
          /\ (a.pc = "tick" /\ RunExecute(a, "value")) => error' = error
          /\ (a.pc = "finish" /\ (Follow(a) \/ Finish(a))) => error' = error
     /\ error /= UNDEF => error' \in {error, RemoteError, ArgsError}]_vars

\* the first execution failed, the second one has just settled successfully,
\* and the error of the first is still there
C36_Witness ==
  /\ nStarted = 2
  /\ error = RemoteError
  /\ \E a \in acts : /\ a.n = 2 /\ a.pc = "finish" /\ a.out = "ok" /\ a.calls = 1
                      /\ data = Result(a.argv)

\* C37: data changes only when a call settles successfully, on reset() (to
\* initialData) and on clear() (to undefined): the step in which a call fails,
\* the step in which the accessor throws and the step in which an execution is
\* skipped leave data at its previous value.
C37_FailureAndSkipKeepData ==
  [][/\ \A a \in acts :
          /\ (a.pc = "settled" /\ a.out = "err" /\ Settle(a)) => data' = data
          /\ (a.pc = "args" /\ ArgsContinue(a)) => data' = data
          /\ (a.pc = "tick" /\ \E o \in {"value", "throw"} : RunExecute(a, o))
               => data' = data
          /\ (a.pc = "finish" /\ (Follow(a) \/ Finish(a))) => data' = data
     /\ data' /= data =>
          \/ (\E a \in acts : a.pc = "settled" /\ a.out = "ok" /\ Settle(a))
          \/ (data' = cfg.initialData /\ Reset)
          \/ (data' = UNDEF /\ Clear)]_vars

\* the first execution wrote its result, the second one has just failed, and
\* the result of the first is still there
C37_Witness ==
  /\ nStarted = 2
  /\ data \in {Result(v) : v \in ArgVals}
  /\ error = RemoteError
  /\ \E a \in acts : a.n = 2 /\ a.pc = "finish" /\ a.out = "err" /\ a.calls = 1

\* C38: when the argument accessor and the remote calls settle, an execution
\* that has started finishes: from every state the binding comes again to a
\* state in which executing is false, no execution is running, and the
\* registry is empty, so that isExecuting is false.
C38_ExecutionsFinish ==
  []<>(~executing /\ ~isExecuting /\ acts = {})

====
